---- MODULE Spec2Model ----
(***************************************************************************)
(* schedule2ical: a class-schedule page is parsed into Course records      *)
(* (parse_schedule / parse_course / parse_time / parse_date) and the       *)
(* records are turned into a calendar (generate_schedule,                  *)
(* MeetingTime.rrule).  Python str values are modelled as sequences of     *)
(* one-character strings, dt.date values as proleptic Gregorian ordinals   *)
(* (date.toordinal()), raised exceptions as records [tag |-> "exc", ...].  *)
(***************************************************************************)
EXTENDS Integers, Sequences, FiniteSets, TLC

VARIABLES
    \* ---- MeetingTime functions (parse_time, MeetingTime.rrule) ----
    tin,        \* the fields the argument text was written from
    s,          \* parse_time's argument s
    mt,         \* what parse_time(s) produced
    rr,         \* what mt.rrule(end_date) produced
    \* ---- parse_schedule ----
    html,       \* the tables of class PSGROUPBOXWBO, in document order
    t,          \* index of the table the comprehension is at
    parsed,     \* the list built so far
    stdout,     \* lines printed
    ppc,        \* "loop" | "returned" | "raised"
    pexc,       \* the exception that ended parse_schedule
    \* ---- generate_schedule ----
    courses,    \* argument courses
    cruzid,     \* argument cruzid
    i,          \* index of the course the for loop is at
    cal,        \* the Calendar object
    cal_start,
    cal_end,
    pc,         \* "start" | "loop" | "raised"
    exc         \* the exception that ended the call

mvars == <<tin, s, mt, rr>>
pvars == <<html, t, parsed, stdout, ppc, pexc>>
gvars == <<courses, cruzid, i, cal, cal_start, cal_end, pc, exc>>
vars == <<tin, s, mt, rr, html, t, parsed, stdout, ppc, pexc,
          courses, cruzid, i, cal, cal_start, cal_end, pc, exc>>

None == [tag |-> "None"]
Raised(name) == [tag |-> "exc", name |-> name]
IsExc(v) == v.tag = "exc"

\* an exception raised while x was evaluated propagates; otherwise the
\* statements after it, K, run on its value
Try(x, K(_)) == IF IsExc(x) THEN x ELSE K(x)

(***************************************************************************)
(* Python str operations                                                   *)
(***************************************************************************)
Min2(a, b) == IF a < b THEN a ELSE b

\* s[a:b] for 0 <= a, with Python's clamping; a and b are 0-based
Slice(str, a, b) == SubSeq(str, a + 1, Min2(b, Len(str)))

\* str.find(sep) from position k on: the first k with str[k..] starting
\* with sep, 0 when there is none
RECURSIVE Find(_, _, _)
Find(str, sep, k) ==
    IF k + Len(sep) - 1 > Len(str) THEN 0
    ELSE IF SubSeq(str, k, k + Len(sep) - 1) = sep THEN k
    ELSE Find(str, sep, k + 1)

\* str.partition(sep): split at the first occurrence of sep
PartitionAt(str, sep, k) ==
    IF k = 0 THEN <<str, <<>>, <<>> >>
    ELSE <<SubSeq(str, 1, k - 1), sep, SubSeq(str, k + Len(sep), Len(str))>>

Partition(str, sep) == PartitionAt(str, sep, Find(str, sep, 1))

\* str.strip() for the blank character
RECURSIVE LStrip(_)
LStrip(str) == IF str # <<>> /\ Head(str) = " " THEN LStrip(Tail(str)) ELSE str

RECURSIVE RStrip(_)
RStrip(str) ==
    IF str # <<>> /\ str[Len(str)] = " " THEN RStrip(SubSeq(str, 1, Len(str) - 1))
    ELSE str

Strip(str) == RStrip(LStrip(str))

\* str.split(sep) for a one-character sep
RECURSIVE Split(_, _)
Split(str, sep) ==
    LET p == Partition(str, sep)
    IN  IF p[2] = <<>> THEN <<str>> ELSE <<p[1]>> \o Split(p[3], sep)

Digits == <<"0", "1", "2", "3", "4", "5", "6", "7", "8", "9">>

DigitVal(c) == (CHOOSE k \in 1..10 : Digits[k] = c) - 1

IsDigits(str) ==
    /\ str # <<>>
    /\ \A k \in 1..Len(str) : \E d \in 1..10 : Digits[d] = str[k]

RECURSIVE DigitsVal(_)
DigitsVal(str) ==
    IF str = <<>> THEN 0
    ELSE 10 * DigitsVal(SubSeq(str, 1, Len(str) - 1)) + DigitVal(str[Len(str)])

\* int(str): a run of decimal digits, anything else raises ValueError
PyInt(str) == IF IsDigits(str) THEN [tag |-> "int", val |-> DigitsVal(str)]
              ELSE Raised("ValueError")

\* str.upper() on the letters of the weekday codes
UpperChar(c) ==
    CASE c = "o" -> "O" [] c = "u" -> "U" [] c = "e" -> "E" [] c = "h" -> "H"
      [] c = "r" -> "R" [] c = "a" -> "A" [] OTHER -> c

Upper(str) == [k \in 1..Len(str) |-> UpperChar(str[k])]

(***************************************************************************)
(* class Weekday                                                           *)
(***************************************************************************)
Weekday == {"Monday", "Tuesday", "Wednesday", "Thursday", "Friday",
            "Saturday", "Sunday"}

\* Weekday.X.value
WeekdayValue(wd) ==
    CASE wd = "Monday" -> <<"M", "o">>
      [] wd = "Tuesday" -> <<"T", "u">>
      [] wd = "Wednesday" -> <<"W", "e">>
      [] wd = "Thursday" -> <<"T", "h">>
      [] wd = "Friday" -> <<"F", "r">>
      [] wd = "Saturday" -> <<"S", "a">>
      [] wd = "Sunday" -> <<"S", "u">>

\* Weekday(code): lookup by value, ValueError when no member has it
WeekdayOf(code) ==
    IF \E wd \in Weekday : WeekdayValue(wd) = code
    THEN [tag |-> "Weekday", val |-> CHOOSE wd \in Weekday : WeekdayValue(wd) = code]
    ELSE Raised("ValueError")

\* Weekday.weekday(self)
WeekdayOrdinal(wd) ==
    CASE wd = "Monday" -> 0 [] wd = "Tuesday" -> 1 [] wd = "Wednesday" -> 2
      [] wd = "Thursday" -> 3 [] wd = "Friday" -> 4 [] wd = "Saturday" -> 5
      [] wd = "Sunday" -> 6

UCSCTZ == "America/Los_Angeles"

(***************************************************************************)
(* parse_time                                                              *)
(***************************************************************************)
\* dt.time(hour, minute, tzinfo=...): range-checked
DtTime(hour, minute, tz) ==
    IF hour \in 0..23 /\ minute \in 0..59
    THEN [tag |-> "time", hour |-> hour, minute |-> minute, tzinfo |-> tz]
    ELSE Raised("ValueError")

\* the inner function parse(st) of parse_time; ampm is read and never used
ParseClock(st) ==
    LET ampm == Slice(st, IF Len(st) < 2 THEN 0 ELSE Len(st) - 2, Len(st))
        body == SubSeq(st, 1, Len(st) - 2)
    IN  Try(PyInt(Partition(body, <<":">>)[1]), LAMBDA hh :
        Try(PyInt(Partition(body, <<":">>)[3]), LAMBDA mm :
        DtTime(hh.val, mm.val, UCSCTZ)))

\* [days[i:i+2] for i in range(0, len(days), 2)]
Chunks(days) ==
    [k \in 1..((Len(days) + 1) \div 2) |-> Slice(days, 2 * (k - 1), 2 * k)]

\* [Weekday(c) for c in codes]
RECURSIVE Weekdays(_)
Weekdays(codes) ==
    IF codes = <<>> THEN [tag |-> "list", val |-> <<>>]
    ELSE Try(WeekdayOf(Head(codes)), LAMBDA wd :
         Try(Weekdays(Tail(codes)), LAMBDA rest :
         [tag |-> "list", val |-> <<wd.val>> \o rest.val]))

parse_time(str) ==
    LET days == Partition(str, <<" ">>)[1]
        times == Partition(str, <<" ">>)[3]
        start == Partition(times, <<" ", "-", " ">>)[1]
        end == Partition(times, <<" ", "-", " ">>)[3]
    IN  Try(Weekdays(Chunks(days)), LAMBDA weekdays :
        Try(ParseClock(start), LAMBDA st :
        Try(ParseClock(end), LAMBDA en :
        [tag |-> "MeetingTime", start_time |-> st, end_time |-> en,
         weekdays |-> weekdays.val])))

(***************************************************************************)
(* dt.date, as its proleptic Gregorian ordinal                             *)
(***************************************************************************)
IsLeap(y) == y % 4 = 0 /\ (y % 100 # 0 \/ y % 400 = 0)

DaysInMonth(y, m) ==
    IF m = 2 THEN (IF IsLeap(y) THEN 29 ELSE 28)
    ELSE IF m \in {4, 6, 9, 11} THEN 30 ELSE 31

DaysBeforeYear(y) ==
    (y - 1) * 365 + (y - 1) \div 4 - (y - 1) \div 100 + (y - 1) \div 400

RECURSIVE DaysBeforeMonth(_, _)
DaysBeforeMonth(y, m) ==
    IF m = 1 THEN 0 ELSE DaysBeforeMonth(y, m - 1) + DaysInMonth(y, m - 1)

Ymd2Ord(y, m, d) == DaysBeforeYear(y) + DaysBeforeMonth(y, m) + d

\* dt.date(year, month, day): range-checked
DtDate(y, m, d) ==
    IF y \in 1..9999 /\ m \in 1..12 /\ d \in 1..DaysInMonth(y, m)
    THEN [tag |-> "date", ord |-> Ymd2Ord(y, m, d)]
    ELSE Raised("ValueError")

\* date.weekday(): 0 is Monday
DateWeekday(ord) == (ord + 6) % 7

\* mm, dd, yyyy = s.split('/') needs exactly three parts
Unpack3(parts) == IF Len(parts) = 3 THEN [tag |-> "tuple", val |-> parts]
                  ELSE Raised("ValueError")

parse_date(str) ==
    Try(Unpack3(Split(str, <<"/">>)), LAMBDA parts :
    Try(PyInt(parts.val[3]), LAMBDA yyyy :
    Try(PyInt(parts.val[1]), LAMBDA mm :
    Try(PyInt(parts.val[2]), LAMBDA dd :
    DtDate(yyyy.val, mm.val, dd.val)))))

(***************************************************************************)
(* MeetingTime.rrule                                                       *)
(***************************************************************************)
\* line 61 builds the list of upper-cased codes, a local that nothing has
\* read when line 62 looks up vDateTime, a name the module neither defines
\* nor imports: every call ends in NameError
rrule(self, end_date) == Raised("NameError")

(***************************************************************************)
(* Argument texts for parse_time, written in the format of the comment     *)
(* above it: "WkDyLs 11:40AM - 1:15PM"                                     *)
(***************************************************************************)
MaxDays == 3

Hours == 1..12
StartMinutes == {40}
EndMinutes == {15}
Meridiems == {<<"A", "M">>, <<"P", "M">>}

\* the weekday lists of a meeting: up to MaxDays days, in week order
SortedDays(S) ==
    CHOOSE q \in [1..Cardinality(S) -> S] :
        \A a, b \in 1..Cardinality(S) :
            a < b => WeekdayOrdinal(q[a]) < WeekdayOrdinal(q[b])

DayLists == {SortedDays(S) : S \in {X \in SUBSET Weekday : Cardinality(X) <= MaxDays}}

FormatInt(n) ==
    IF n < 10 THEN <<Digits[n + 1]>> ELSE <<Digits[(n \div 10) + 1], Digits[(n % 10) + 1]>>

FormatInt2(n) == <<Digits[(n \div 10) + 1], Digits[(n % 10) + 1]>>

FormatClock(h, m, ap) == FormatInt(h) \o <<":">> \o FormatInt2(m) \o ap

RECURSIVE FormatDays(_)
FormatDays(days) ==
    IF days = <<>> THEN <<>> ELSE WeekdayValue(Head(days)) \o FormatDays(Tail(days))

FormatMeeting(f) ==
    FormatDays(f.days) \o <<" ">> \o FormatClock(f.sh, f.sm, f.sap)
        \o <<" ", "-", " ">> \o FormatClock(f.eh, f.em, f.eap)

MeetingFields ==
    [wf : {TRUE}, days : DayLists, sh : Hours, sm : StartMinutes, sap : Meridiems,
     eh : Hours, em : EndMinutes, eap : Meridiems]

\* texts outside the format: empty, an unknown code, half a code, no end
\* time, a minute and an hour out of range
MalformedMeetings ==
    { <<>>,
      <<"X", "x", " ", "1", ":", "0", "0", "P", "M", " ", "-", " ", "2", ":", "0", "0", "P", "M">>,
      <<"M", " ", "1", ":", "0", "0", "P", "M", " ", "-", " ", "2", ":", "0", "0", "P", "M">>,
      <<"M", "o", " ", "1", ":", "0", "0", "P", "M">>,
      <<"M", "o", " ", "1", ":", "7", "5", "P", "M", " ", "-", " ", "2", ":", "0", "0", "P", "M">>,
      <<"M", "o", " ", "1", ":", "0", "0", "P", "M", " ", "-", " ", "2", "4", ":", "0", "0", "P", "M">> }

\* quarter end dates handed to rrule
EndDates == {Ymd2Ord(2024, 3, 15), Ymd2Ord(2024, 6, 14)}

\* dt.datetime.combine(date, dt.time(tzinfo=UCSCTZ))
DtCombine(date, time) == [tag |-> "datetime", date |-> date, time |-> time]

Midnight == DtTime(0, 0, UCSCTZ)

IdleMeeting == tin = [wf |-> FALSE] /\ s = <<>> /\ mt = None /\ rr = None

IdleParse ==
    /\ html = <<>> /\ t = 1 /\ parsed = <<>> /\ stdout = <<>>
    /\ ppc = "idle" /\ pexc = None

IdleGen ==
    /\ courses = <<>> /\ cruzid = <<>> /\ i = 1 /\ cal = None
    /\ cal_start = None /\ cal_end = None /\ pc = "idle" /\ exc = None

InitMeeting ==
    /\ \/ \E f \in MeetingFields : tin = f /\ s = FormatMeeting(f)
       \/ \E m \in MalformedMeetings : tin = [wf |-> FALSE] /\ s = m
    /\ mt = None
    /\ rr = None
    /\ IdleParse
    /\ IdleGen

\* a caller evaluates parse_time(s)
ParseTime ==
    /\ mt = None
    /\ mt' = parse_time(s)
    /\ UNCHANGED <<tin, s, rr>>
    /\ UNCHANGED pvars
    /\ UNCHANGED gvars

\* a caller evaluates mt.rrule(datetime.combine(end_date, time(tzinfo=UCSCTZ)))
CallRrule ==
    /\ mt.tag = "MeetingTime"
    /\ rr = None
    /\ \E d \in EndDates :
          rr' = [tag |-> "rrule", end_date |-> d,
                 result |-> rrule(mt, DtCombine(d, Midnight))]
    /\ UNCHANGED <<tin, s, mt>>
    /\ UNCHANGED pvars
    /\ UNCHANGED gvars

NextMeeting == ParseTime \/ CallRrule

SpecMeeting == InitMeeting /\ [][NextMeeting]_vars

(***************************************************************************)
(* parse_course, parse_schedule.  A table of class PSGROUPBOXWBO is        *)
(*   marker : "td" when a td of class PAGROUPDIVIDER is inside it, "other" *)
(*            when only another tag has that class, "none" when no tag has *)
(*   text   : the marker's text                                            *)
(*   info   : whether a table of class PSGROUPBOX is inside it             *)
(*   status : the text of info_table("tr")[1]("tr")[2]("td")[0]            *)
(*   rows   : info_table("tr")[2]("tr"), each row the texts of its td's    *)
(***************************************************************************)
Sep == <<" ", "-", " ">>

\* the status words in another letter case
DroppedLower == <<"d", "r", "o", "p", "p", "e", "d">>
WaitingLower == <<"w", "a", "i", "t", "i", "n", "g">>

\* the literals of lines 140 and 143
DroppedStr == <<"D", "r", "o", "p", "p", "e", "d">>
WaitingStr == <<"W", "a", "i", "t", "i", "n", "g">>

\* one pass of the loop body of parse_course, lines 147-162
SectionCourse(code, title, waitlist, info_tds) ==
    Try(parse_date(Partition(Strip(info_tds[7]), Sep)[1]), LAMBDA start_date :
    Try(parse_date(Partition(Strip(info_tds[7]), Sep)[3]), LAMBDA end_date :
    Try(parse_time(Strip(info_tds[4])), LAMBDA meeting_time :
    [tag |-> "Course", code |-> code, title |-> title, waitlist |-> waitlist,
     section |-> Strip(info_tds[2]), component |-> Strip(info_tds[3]),
     instructor |-> Strip(info_tds[6]),
     start_date |-> start_date, end_date |-> end_date,
     room |-> Strip(info_tds[5]), meeting_time |-> meeting_time])))

\* the for loop of parse_course over the rows it was given
RECURSIVE SectionCourses(_, _, _, _)
SectionCourses(code, title, waitlist, rows) ==
    IF rows = <<>> THEN [tag |-> "list", val |-> <<>>]
    ELSE Try(SectionCourse(code, title, waitlist, Head(rows)), LAMBDA c :
         Try(SectionCourses(code, title, waitlist, Tail(rows)), LAMBDA rest :
         [tag |-> "list", val |-> <<c>> \o rest.val]))

\* ...[1:], the slice that keeps the second header row
SkipOneHeader(rows) == SubSeq(rows, 2, Len(rows))

\* ...[2:]
SkipHeaders(rows) == SubSeq(rows, 3, Len(rows))

\* lines 139-164, once the title has been split into code and title
CourseRows(table, code, title) ==
    IF Strip(table.status) = DroppedStr
    THEN [tag |-> "list", val |-> <<>>,
          printed |-> << <<"Skipping dropped class", code, title>> >>]
    ELSE Try(SectionCourses(code, title, Strip(table.status) = WaitingStr,
                            SkipHeaders(table.rows)), LAMBDA r :
         [tag |-> "list", val |-> r.val, printed |-> <<>>])

\* parse_course(table): the list returned (or the exception) and what it printed
parse_course(table) ==
    IF table.marker # "td" THEN [tag |-> "list", val |-> <<>>, printed |-> <<>>]
    ELSE IF ~table.info THEN [tag |-> "list", val |-> <<>>, printed |-> <<>>]
    ELSE CourseRows(table, Partition(table.text, Sep)[1], Partition(table.text, Sep)[3])

(***************************************************************************)
(* Documents handed to parse_schedule                                      *)
(***************************************************************************)
MaxGroups == 2
MaxRows == 2

HeaderRow1 == << <<>> >>
HeaderRow2 ==
    <<<<"N", "b", "r">>,
      <<"S", "e", "c">>,
      <<"C", "m", "p">>,
      <<"T", "i", "m", "e", "s">>,
      <<"R", "o", "o", "m">>,
      <<"I", "n", "s", "t">>,
      <<"D", "a", "t", "e", "s">>>>

LecRow ==
    <<<<"1">>,
      <<" ", "0", "1", " ">>,
      <<"L", "E", "C">>,
      <<"M", "o", "W", "e", "F", "r", " ", "1", "1", ":", "4", "0", "A", "M", " ", "-", " ", "1", ":", "1", "5", "P", "M">>,
      <<"E", "2">>,
      <<"N", "g">>,
      <<"0", "1", "/", "0", "8", "/", "2", "0", "2", "4", " ", "-", " ", "0", "3", "/", "1", "5", "/", "2", "0", "2", "4">>>>
DisRow ==
    <<<<"2">>,
      <<"0", "1", "A">>,
      <<"D", "I", "S">>,
      <<"T", "u", " ", "9", ":", "0", "0", "A", "M", " ", "-", " ", "1", "0", ":", "0", "5", "A", "M">>,
      <<"J", "1">>,
      <<"S", "t", "a", "f", "f">>,
      <<"0", "1", "/", "0", "9", "/", "2", "0", "2", "4", " ", "-", " ", "0", "3", "/", "1", "4", "/", "2", "0", "2", "4">>>>
\* a meeting-time cell outside the grammar
BadTimeRow ==
    <<<<"3">>,
      <<"0", "2">>,
      <<"L", "A", "B">>,
      <<"T", "B", "A">>,
      <<"T", "B", "A">>,
      <<"S", "t", "a", "f", "f">>,
      <<"0", "1", "/", "0", "8", "/", "2", "0", "2", "4", " ", "-", " ", "0", "3", "/", "1", "5", "/", "2", "0", "2", "4">>>>
\* a date-range cell outside the grammar
BadDateRow ==
    <<<<"4">>,
      <<"0", "3">>,
      <<"S", "E", "M">>,
      <<"T", "h", " ", "1", ":", "3", "0", "P", "M", " ", "-", " ", "3", ":", "0", "5", "P", "M">>,
      <<"E", "2">>,
      <<"N", "g">>,
      <<"T", "B", "A">>>>

RECURSIVE SeqsUpTo(_, _)
SeqsUpTo(S, n) ==
    IF n = 0 THEN {<<>>}
    ELSE LET shorter == SeqsUpTo(S, n - 1)
         IN  shorter \cup {Append(q, x) : q \in shorter, x \in S}

\* a group lists its lecture first: no rows, or LecRow and up to MaxRows - 1
\* further rows
WellFormedRowLists ==
    {<<>>} \cup {<<LecRow>> \o q : q \in SeqsUpTo({LecRow, DisRow}, MaxRows - 1)}
MalformedRowLists == {<<BadTimeRow>>, <<LecRow, BadDateRow>>}

Title1 == <<"C", "S", "E", " ", "1", "0", "1", " ", "-", " ", "A", "l", "g", "o">>
Title2 == <<"L", "I", "T", " ", "1", " ", "-", " ", "A", " ", "-", " ", "Z">>
EnrolledText == <<"E", "n", "r", "o", "l", "l", "e", "d">>
WaitingText == <<" ", "W", "a", "i", "t", "i", "n", "g", " ">>
OtherText == <<"P", "e", "n", "d", "i", "n", "g">>
DroppedText == <<"D", "r", "o", "p", "p", "e", "d", " ">>

Group(text, status, rows) ==
    [marker |-> "td", text |-> text, info |-> TRUE, status |-> status,
     rows |-> <<HeaderRow1, HeaderRow2>> \o rows]

Tables ==
    {Group(Title1, EnrolledText, r) : r \in WellFormedRowLists \cup MalformedRowLists}
    \cup {Group(Title2, WaitingText, r) : r \in {<<DisRow>>, <<DisRow, LecRow>>}}
    \cup {Group(Title2, OtherText, <<LecRow>>)}
    \cup {Group(Title1, DroppedText, r) : r \in {<<LecRow>>} \cup MalformedRowLists}
    \cup {[marker |-> "none", text |-> <<>>, info |-> FALSE, status |-> <<>>, rows |-> <<>>],
          [marker |-> "other", text |-> Title2, info |-> TRUE, status |-> EnrolledText,
           rows |-> <<HeaderRow1, HeaderRow2, LecRow>>],
          [marker |-> "td", text |-> Title2, info |-> FALSE, status |-> <<>>, rows |-> <<>>]}

InitParse ==
    /\ html \in SeqsUpTo(Tables, MaxGroups)
    /\ t = 1
    /\ parsed = <<>>
    /\ stdout = <<>>
    /\ ppc = "loop"
    /\ pexc = None
    /\ IdleMeeting
    /\ IdleGen

\* a table in which no tag has class PAGROUPDIVIDER is filtered out
FilterTable ==
    /\ ppc = "loop"
    /\ t <= Len(html)
    /\ html[t].marker = "none"
    /\ t' = t + 1
    /\ UNCHANGED <<html, parsed, stdout, ppc, pexc>>
    /\ UNCHANGED mvars
    /\ UNCHANGED gvars

\* the comprehension takes every course of parse_course(table)
ExtendWith(r) ==
    /\ ~IsExc(r)
    /\ parsed' = parsed \o r.val
    /\ stdout' = stdout \o r.printed

ExtendCourses ==
    /\ ppc = "loop"
    /\ t <= Len(html)
    /\ html[t].marker # "none"
    /\ ExtendWith(parse_course(html[t]))
    /\ t' = t + 1
    /\ UNCHANGED <<html, ppc, pexc>>
    /\ UNCHANGED mvars
    /\ UNCHANGED gvars

\* an exception of parse_course leaves parse_schedule
RaiseWith(r) == IsExc(r) /\ pexc' = r

RaiseInCourse ==
    /\ ppc = "loop"
    /\ t <= Len(html)
    /\ html[t].marker # "none"
    /\ RaiseWith(parse_course(html[t]))
    /\ ppc' = "raised"
    /\ UNCHANGED <<html, t, parsed, stdout>>
    /\ UNCHANGED mvars
    /\ UNCHANGED gvars

ReturnCourses ==
    /\ ppc = "loop"
    /\ t > Len(html)
    /\ ppc' = "returned"
    /\ UNCHANGED <<html, t, parsed, stdout, pexc>>
    /\ UNCHANGED mvars
    /\ UNCHANGED gvars

NextParse == FilterTable \/ ExtendCourses \/ RaiseInCourse \/ ReturnCourses

SpecParse == InitParse /\ [][NextParse]_vars

(***************************************************************************)
(* generate_schedule                                                       *)
(***************************************************************************)
\* the test of line 192 with its sense inverted
NoMeetingTimesNegated(course) == course.meeting_time.weekdays # <<>>

\* line 192: not course.meeting_time.weekdays
NoMeetingTimes(course) == course.meeting_time.weekdays = <<>>

\* lines 195-196
NewCalStart(cur, course) ==
    IF cur = None \/ cur.ord > course.start_date.ord THEN course.start_date ELSE cur

\* lines 197-198
NewCalEnd(cur, course) ==
    IF cur = None \/ cur.ord < course.end_date.ord THEN course.end_date ELSE cur

\* lines 190-200 as a function of the sequence: cal_start and cal_end when
\* the loop ends, by exhausting the sequence or by the exception of line 200
RECURSIVE LoopBounds(_, _, _)
LoopBounds(seq, cs, ce) ==
    IF seq = <<>> THEN <<cs, ce>>
    ELSE IF NoMeetingTimes(Head(seq)) THEN LoopBounds(Tail(seq), cs, ce)
    ELSE <<NewCalStart(cs, Head(seq)), NewCalEnd(ce, Head(seq))>>

\* lines 182-185: Calendar() with PRODID and VERSION added
NewCalendar ==
    [tag |-> "Calendar",
     PRODID |-> "-//people.ucsc.edu/~mcarr35/schedule2ical//0.1.0//EN",
     VERSION |-> "2.0",
     subcomponents |-> <<>>]

(***************************************************************************)
(* Course sequences handed to generate_schedule                            *)
(***************************************************************************)
MaxCourses == 2

\* quarter date ranges: winter 2024, spring 2024, and both
Quarters ==
    {<<[tag |-> "date", ord |-> Ymd2Ord(2024, 1, 8)], [tag |-> "date", ord |-> Ymd2Ord(2024, 3, 15)]>>,
     <<[tag |-> "date", ord |-> Ymd2Ord(2024, 4, 1)], [tag |-> "date", ord |-> Ymd2Ord(2024, 6, 14)]>>,
     <<[tag |-> "date", ord |-> Ymd2Ord(2024, 1, 8)], [tag |-> "date", ord |-> Ymd2Ord(2024, 6, 14)]>>}
Sections == {<<"0", "1">>, <<"0", "1", "A">>}
WeekdayLists == {<<>>, <<"Wednesday">>, <<"Monday", "Wednesday", "Friday">>}

CourseOf(section, start_date, end_date, weekdays) ==
    [tag |-> "Course", code |-> <<"C", "S", "E", " ", "1", "0", "1">>, title |-> <<"A", "l", "g", "o">>,
     waitlist |-> FALSE, section |-> section, component |-> <<"L", "E", "C">>,
     instructor |-> <<"N", "g">>, start_date |-> start_date, end_date |-> end_date,
     room |-> <<"E", "2">>,
     meeting_time |-> [tag |-> "MeetingTime", start_time |-> DtTime(9, 0, UCSCTZ),
                       end_time |-> DtTime(10, 5, UCSCTZ), weekdays |-> weekdays]]

Courses ==
    {CourseOf(sec, q[1], q[2], wds) :
        sec \in Sections, q \in Quarters, wds \in WeekdayLists}

Init ==
    /\ courses \in SeqsUpTo(Courses, MaxCourses)
    /\ cruzid = <<"m", "c", "a", "r", "r", "3", "5">>
    /\ i = 1
    /\ cal = None
    /\ cal_start = None
    /\ cal_end = None
    /\ pc = "start"
    /\ exc = None
    /\ IdleMeeting
    /\ IdleParse

\* lines 182-188
Begin ==
    /\ pc = "start"
    /\ cal' = NewCalendar
    /\ cal_start' = None
    /\ cal_end' = None
    /\ pc' = "loop"
    /\ UNCHANGED <<courses, cruzid, i, exc>>
    /\ UNCHANGED mvars
    /\ UNCHANGED pvars

\* lines 190-193: a course without meeting days is passed over
SkipCourse ==
    /\ pc = "loop"
    /\ i <= Len(courses)
    /\ NoMeetingTimes(courses[i])
    /\ i' = i + 1
    /\ UNCHANGED <<courses, cruzid, cal, cal_start, cal_end, pc, exc>>
    /\ UNCHANGED mvars
    /\ UNCHANGED pvars

\* lines 195-200: the bounds are updated, then line 200 reads dt.combine;
\* dt is the datetime module, which has no attribute combine
IncludeCourse ==
    /\ pc = "loop"
    /\ i <= Len(courses)
    /\ ~NoMeetingTimes(courses[i])
    /\ cal_start' = NewCalStart(cal_start, courses[i])
    /\ cal_end' = NewCalEnd(cal_end, courses[i])
    /\ pc' = "raised"
    /\ exc' = Raised("AttributeError")
    /\ UNCHANGED <<courses, cruzid, i, cal>>
    /\ UNCHANGED mvars
    /\ UNCHANGED pvars

\* line 219: return calendar; no name calendar is bound (the object is cal)
ReturnCalendar ==
    /\ pc = "loop"
    /\ i > Len(courses)
    /\ pc' = "raised"
    /\ exc' = Raised("NameError")
    /\ UNCHANGED <<courses, cruzid, i, cal, cal_start, cal_end>>
    /\ UNCHANGED mvars
    /\ UNCHANGED pvars

Next == Begin \/ SkipCourse \/ IncludeCourse \/ ReturnCalendar

Spec == Init /\ [][Next]_vars

(***************************************************************************)
(* Properties of parse_time and MeetingTime.rrule (SpecMeeting)            *)
(***************************************************************************)
AM == <<"A", "M">>

\* the 24-hour value of hour h with meridiem ap
Hour24(h, ap) ==
    IF ap = AM THEN (IF h = 12 THEN 0 ELSE h) ELSE (IF h = 12 THEN 12 ELSE h + 12)

\* C2: parse_time resolves each 12-hour clock time with its meridiem marker:
\* for a text written from days D, start h1:m1 ap1 and end h2:m2 ap2 the
\* result has weekdays D, start Hour24(h1, ap1):m1 and end Hour24(h2, ap2):m2
\* (12AM is hour 0, 12PM hour 12, other PM hours h + 12).
C2_MeridiemResolved ==
    (tin.wf /\ mt # None) =>
        /\ mt.tag = "MeetingTime"
        /\ mt.weekdays = tin.days
        /\ mt.start_time.hour = Hour24(tin.sh, tin.sap)
        /\ mt.start_time.minute = tin.sm
        /\ mt.end_time.hour = Hour24(tin.eh, tin.eap)
        /\ mt.end_time.minute = tin.em

ByDay(weekdays) == [k \in 1..Len(weekdays) |-> Upper(WeekdayValue(weekdays[k]))]

\* C7: the recurrence rule of a meeting with weekday list W and quarter end
\* date D has frequency WEEKLY, interval 1, a by-day list that is exactly the
\* upper-cased codes of W in W's order, and until = D at local midnight.
C7_RruleContent ==
    rr # None =>
        rr.result = [tag |-> "rule", FREQ |-> "WEEKLY", INTERVAL |-> 1,
                     BYDAY |-> ByDay(mt.weekdays),
                     UNTIL |-> DtCombine(rr.end_date, Midnight)]

(***************************************************************************)
(* Properties of parse_schedule (SpecParse)                                *)
(***************************************************************************)
\* a table that is a course group: it has its title cell and its info table
IsGroup(tb) == tb.marker = "td" /\ tb.info

StatusReads(tb, word) == IsGroup(tb) /\ Strip(tb.status) = word

IsDroppedGroup(tb) == StatusReads(tb, <<"D", "r", "o", "p", "p", "e", "d">>)

\* the rows after the two header rows
SectionRows(tb) == SubSeq(tb.rows, 3, Len(tb.rows))

WellFormedGroup(tb) ==
    IsGroup(tb) /\ \A k \in 1..Len(SectionRows(tb)) : SectionRows(tb)[k] \in {LecRow, DisRow}

HasMalformedRow(tb) ==
    \E k \in 1..Len(SectionRows(tb)) : SectionRows(tb)[k] \in {BadTimeRow, BadDateRow}

\* what the title texts and section cells of the documents read
CodeOfText(text) == IF text = Title1 THEN <<"C", "S", "E", " ", "1", "0", "1">> ELSE <<"L", "I", "T", " ", "1">>
TitleOfText(text) == IF text = Title1 THEN <<"A", "l", "g", "o">> ELSE <<"A", " ", "-", " ", "Z">>
SectionOfRow(row) == IF row = LecRow THEN <<"0", "1">> ELSE <<"0", "1", "A">>

\* one entry per section row of the group at index g, in row order
GroupEntries(g) ==
    IF IsGroup(html[g]) /\ ~IsDroppedGroup(html[g])
    THEN [k \in 1..Len(SectionRows(html[g])) |->
            [g |-> g, code |-> CodeOfText(html[g].text),
             title |-> TitleOfText(html[g].text),
             section |-> SectionOfRow(SectionRows(html[g])[k]),
             waiting |-> StatusReads(html[g], <<"W", "a", "i", "t", "i", "n", "g">>)]]
    ELSE <<>>

\* the entries of the first n tables, in document order
RECURSIVE Entries(_)
Entries(n) == IF n = 0 THEN <<>> ELSE Entries(n - 1) \o GroupEntries(n)

\* C3: the records are in source order, one per section row of every
\* non-dropped group, each carrying its group's code and title and the same
\* waitlist flag as the other records of its group; a well-formed group
\* never ends the parse.
C3_SourceOrder ==
    ppc \in {"loop", "raised", "returned"} =>
        LET E == Entries(t - 1)
        IN  /\ ppc = "raised" => ~WellFormedGroup(html[t])
            /\ Len(parsed) = Len(E)
            /\ \A k \in 1..Len(parsed) :
                  /\ parsed[k].code = E[k].code
                  /\ parsed[k].title = E[k].title
                  /\ parsed[k].section = E[k].section
            /\ \A j, k \in 1..Len(parsed) :
                  E[j].g = E[k].g => parsed[j].waitlist = parsed[k].waitlist

\* a returned list holding, in order, both rows of a first group and the row
\* of a second
C3_Witness ==
    /\ ppc = "returned"
    /\ Len(html) = 2
    /\ Len(parsed) = 3
    /\ parsed[1].section # parsed[2].section
    /\ parsed[1].code = parsed[2].code
    /\ parsed[3].code # parsed[1].code

\* C4: the step over a group whose status cell reads "Dropped" adds no
\* record, whatever its rows hold, raises nothing, prints the skip, and goes
\* on to the next table, so the records of the other groups are produced.
C4_DroppedExclusion ==
    [][(ppc = "loop" /\ t <= Len(html) /\ IsDroppedGroup(html[t]))
        => /\ parsed' = parsed
           /\ ppc' = "loop"
           /\ pexc' = pexc
           /\ t' = t + 1
           /\ Len(stdout') = Len(stdout) + 1]_vars

\* a dropped group with a malformed row was passed over and the group after
\* it gave its record
C4_Witness ==
    /\ ppc = "returned"
    /\ Len(html) = 2
    /\ IsDroppedGroup(html[1])
    /\ HasMalformedRow(html[1])
    /\ Len(parsed) = 1
    /\ Len(stdout) = 1

\* the flag of every entry of the first n tables
WaitingFlags(n) == LET E == Entries(n) IN [k \in 1..Len(E) |-> E[k].waiting]

\* C10: every record of a group whose status reads "Waiting" has
\* waitlist = TRUE and every record of a group with another status that is
\* not "Dropped" has waitlist = FALSE.
C10_WaitlistFlag ==
    ppc \in {"loop", "raised", "returned"} =>
        LET F == WaitingFlags(t - 1)
        IN  /\ Len(parsed) = Len(F)
            /\ \A k \in 1..Len(parsed) : parsed[k].waitlist = F[k]

\* a returned list with the two records of a waiting group and one of an
\* enrolled group
C10_Witness ==
    /\ ppc = "returned"
    /\ Len(parsed) = 3
    /\ parsed[1].waitlist
    /\ parsed[2].waitlist
    /\ ~parsed[3].waitlist

(***************************************************************************)
(* Properties of generate_schedule (Spec)                                  *)
(***************************************************************************)
Included(course) == course.meeting_time.weekdays # <<>>

IncludedIdx == {k \in 1..Len(courses) : Included(courses[k])}

Finished == pc \notin {"idle", "start", "loop"}

\* C1: generate_schedule returns a Calendar holding exactly one event per
\* Course with a non-empty weekday list.
C1_OneEventPerIncluded ==
    Finished =>
        /\ pc = "returned"
        /\ Len(cal.subcomponents) = Cardinality(IncludedIdx)

\* the earliest date on or after the quarter start whose weekday is a
\* meeting day
OrdinalsOf(weekdays) == {WeekdayOrdinal(weekdays[k]) : k \in 1..Len(weekdays)}

FirstOccurrence(course) ==
    CHOOSE d \in course.start_date.ord .. course.start_date.ord + 6 :
        /\ DateWeekday(d) \in OrdinalsOf(course.meeting_time.weekdays)
        /\ \A e \in course.start_date.ord .. d - 1 :
              DateWeekday(e) \notin OrdinalsOf(course.meeting_time.weekdays)

\* C6: every included Course has an event whose first occurrence is on the
\* earliest date on or after the quarter start that falls on a meeting day.
C6_FirstOccurrence ==
    Finished =>
        \A k \in IncludedIdx :
            \E e \in 1..Len(cal.subcomponents) :
                cal.subcomponents[e].DTSTART.date = FirstOccurrence(courses[k])

MinOrd(S) == CHOOSE x \in S : \A y \in S : x <= y
MaxOrd(S) == CHOOSE x \in S : \A y \in S : x >= y

\* C8: after the run the overall bounds are the minimum quarter start and
\* the maximum quarter end over the included Courses.
C8_BoundsMinMax ==
    (Finished /\ IncludedIdx # {}) =>
        /\ cal_start.ord = MinOrd({courses[k].start_date.ord : k \in IncludedIdx})
        /\ cal_end.ord = MaxOrd({courses[k].end_date.ord : k \in IncludedIdx})

\* the four values an event identifier is built from
UidParts(course) ==
    <<course.code, course.section,
      DtCombine(FirstOccurrence(course), course.meeting_time.start_time), cruzid>>

OnlySectionDiffers(a, b) ==
    a.section # b.section /\ [a EXCEPT !.section = b.section] = b

\* C9: two included Courses that differ only in section id have events with
\* distinct identifiers, each built from code, section, first occurrence
\* and the identity token.
C9_UidDistinct ==
    Finished =>
        \A j, k \in IncludedIdx :
            OnlySectionDiffers(courses[j], courses[k]) =>
                \E a, b \in 1..Len(cal.subcomponents) :
                    /\ cal.subcomponents[a].UID = UidParts(courses[j])
                    /\ cal.subcomponents[b].UID = UidParts(courses[k])
                    /\ cal.subcomponents[a].UID # cal.subcomponents[b].UID

====
